---- MODULE Spec2Model ----
(***************************************************************************)
(* A model of python_env_setup.py: environment detection, the pyenv        *)
(* installer flows, the version picker, the version installer, the shell   *)
(* startup-file append and the main control flow with its exit codes.      *)
(*                                                                         *)
(* Text is modelled as a sequence of one-character strings, so that        *)
(* lower(), strip(), splitlines(), the substring test `in`, endswith(),    *)
(* isdigit(), int() and the version regular expression are computed, not   *)
(* assumed.                                                                *)
(***************************************************************************)
EXTENDS Integers, Sequences, FiniteSets, TLC

VARIABLES
    system,        \* platform.system()
    procVersion,   \* the file /proc/version
    osRelease,     \* the file /etc/os-release
    os_environ,    \* the ambient process environment os.environ
    fs,            \* ~/.pyenv, its plugin directory, Homebrew's binaries
    rcFiles,       \* ~/.zshrc and ~/.bashrc
    pyenv,         \* what the pyenv tool has installed / created
    available,     \* number of versions `pyenv install --list` knows
    pc,            \* position of the run in main()
    env_name,      \* main: env_name
    heap,          \* the dict objects: "os" is os.environ, "o1" the copy
    raw_env,       \* main: raw_env (a reference into heap)
    env,           \* main: env (a reference into heap)
    versions,      \* prompt_for_version: versions
    latest,        \* prompt_for_version: latest
    choice,        \* prompt_for_version: choice (last line read)
    confirmed,     \* prompt_for_version: answer of the ask_yes_no at 453
    version,       \* main: version
    installed,     \* ensure_version_installed: installed
    installOk,     \* main: result of ensure_version_installed
    has_virtualenv,\* ensure_pyenv_and_virtualenv: has_virtualenv
    raised,        \* exception propagating out of main, "none" if none
    exitCode,      \* process exit status, Running until the exit
    cmds,          \* lines of the run_cmd calls made so far
    last,          \* the latest run_cmd call and how it ended
    prompts,       \* prompts shown so far
    rcHist         \* history of append_to_shell_rc_if_missing applications

vars == <<system, procVersion, osRelease, os_environ, fs, rcFiles, pyenv,
          available, pc, env_name, heap, raw_env, env, versions, latest,
          choice, confirmed, version, installed, installOk, has_virtualenv,
          raised, exitCode, cmds, last, prompts, rcHist>>

\* None, for names and tri-state results
NoVal == "None"
\* None where the other values are text: no text holds a two-letter element
NoText == <<"None">>
\* the exit status of a process that has not exited
Running == -1

----------------------------------------------------------------------------
(* Text primitives                                                         *)

UpperChars == <<"A","B","C","D","E","F","G","H","I","J","K","L","M",
                "N","O","P","Q","R","S","T","U","V","W","X","Y","Z">>
LowerChars == <<"a","b","c","d","e","f","g","h","i","j","k","l","m",
                "n","o","p","q","r","s","t","u","v","w","x","y","z">>
DigitChars == <<"0","1","2","3","4","5","6","7","8","9">>

LowerChar(c) ==
    IF \E i \in 1..26 : UpperChars[i] = c
    THEN LowerChars[CHOOSE i \in 1..26 : UpperChars[i] = c]
    ELSE c

\* str.lower()
Lower(s) == [i \in 1..Len(s) |-> LowerChar(s[i])]

IsSpace(c) == c \in {" ", "\n", "\t"}

RECURSIVE LStrip(_)
LStrip(s) == IF s # <<>> /\ IsSpace(Head(s)) THEN LStrip(Tail(s)) ELSE s

RECURSIVE RStrip(_)
RStrip(s) ==
    IF s # <<>> /\ IsSpace(s[Len(s)]) THEN RStrip(SubSeq(s, 1, Len(s) - 1)) ELSE s

\* str.strip()
Strip(s) == RStrip(LStrip(s))

RECURSIVE LStripNL(_)
LStripNL(s) == IF s # <<>> /\ Head(s) = "\n" THEN LStripNL(Tail(s)) ELSE s

RECURSIVE RStripNL(_)
RStripNL(s) ==
    IF s # <<>> /\ s[Len(s)] = "\n" THEN RStripNL(SubSeq(s, 1, Len(s) - 1)) ELSE s

\* str.strip("\n")
StripNL(s) == RStripNL(LStripNL(s))

\* needle in hay
Contains(hay, needle) ==
    \E i \in 0..(Len(hay) - Len(needle)) :
        SubSeq(hay, i + 1, i + Len(needle)) = needle

\* number of (possibly overlapping) occurrences of needle in hay
Occurrences(hay, needle) ==
    Cardinality({i \in 0..(Len(hay) - Len(needle)) :
                    SubSeq(hay, i + 1, i + Len(needle)) = needle})

\* str.endswith(suf)
EndsWith(s, suf) ==
    /\ Len(suf) <= Len(s)
    /\ SubSeq(s, Len(s) - Len(suf) + 1, Len(s)) = suf

\* the pieces of s between occurrences of the character sep (str.split(sep))
Split(s, sep) ==
    LET at == {i \in 1..Len(s) : s[i] = sep}
        cut(k) == IF k = 0 THEN 0
                  ELSE IF k = Cardinality(at) + 1 THEN Len(s) + 1
                  ELSE CHOOSE i \in at : Cardinality({j \in at : j < i}) = k - 1
    IN  [k \in 1..(Cardinality(at) + 1) |-> SubSeq(s, cut(k - 1) + 1, cut(k) - 1)]

\* str.splitlines(): like split("\n"), but a final newline opens no line
SplitLines(s) ==
    IF s = <<>> THEN <<>>
    ELSE IF s[Len(s)] = "\n" THEN Split(SubSeq(s, 1, Len(s) - 1), "\n")
    ELSE Split(s, "\n")

RECURSIVE Join(_, _)
Join(lines, sep) ==
    IF lines = <<>> THEN <<>>
    ELSE IF Len(lines) = 1 THEN lines[1]
    ELSE lines[1] \o sep \o Join(Tail(lines), sep)

IsDigitChar(c) == \E i \in 1..10 : DigitChars[i] = c
DigitValue(c) == (CHOOSE i \in 1..10 : DigitChars[i] = c) - 1

\* str.isdigit()
IsDigit(s) == s # <<>> /\ \A i \in 1..Len(s) : IsDigitChar(s[i])

\* int(s) for a string of digits
RECURSIVE StrToInt(_)
StrToInt(s) ==
    IF s = <<>> THEN 0
    ELSE 10 * StrToInt(SubSeq(s, 1, Len(s) - 1)) + DigitValue(s[Len(s)])

\* str(n) for n >= 0
RECURSIVE IntToStr(_)
IntToStr(n) ==
    IF n < 10 THEN <<DigitChars[n + 1]>>
    ELSE IntToStr(n \div 10) \o <<DigitChars[(n % 10) + 1]>>

\* re.fullmatch(r"\d+\.\d+\.\d+", s)
VersionPattern(s) ==
    LET parts == Split(s, ".")
    IN  /\ Len(parts) = 3
        /\ \A i \in 1..3 : IsDigit(parts[i])

----------------------------------------------------------------------------
(* detect_environment                                                      *)

\* A file is absent, present but unreadable (PermissionError), present but
\* not UTF-8 (UnicodeDecodeError), or present with text.
AbsentFile == [kind |-> "absent", text |-> <<>>]
NoPermFile == [kind |-> "noperm", text |-> <<>>]
BadUtf8File == [kind |-> "badutf8", text |-> <<>>]
TextFile(t) == [kind |-> "text", text |-> t]

\* Path.is_file()
IsFile(f) == f.kind # "absent"

\* the exception open()/read()/read_text() raises on f, "none" if it reads
ReadExc(f) ==
    CASE f.kind = "absent" -> "FileNotFoundError"
      [] f.kind = "noperm" -> "PermissionError"
      [] f.kind = "badutf8" -> "UnicodeDecodeError"
      [] OTHER -> "none"

\* FileNotFoundError and PermissionError are subclasses of OSError;
\* UnicodeDecodeError is a ValueError
IsOSError(e) == e \in {"FileNotFoundError", "PermissionError"}

Returns(v) == [ret |-> v, exc |-> "none"]
Raises(e) == [ret |-> NoVal, exc |-> e]
FallThrough == [ret |-> "fallthrough", exc |-> "none"]

MarkerMicrosoft == <<"m","i","c","r","o","s","o","f","t">>
MarkerWsl == <<"w","s","l">>
MarkerUbuntu == <<"u","b","u","n","t","u">>

\* lines 125-136: the try block that looks for WSL
WslCheck(proc, osrel) ==
    IF ReadExc(proc) # "none"
    THEN IF IsOSError(ReadExc(proc)) THEN FallThrough ELSE Raises(ReadExc(proc))
    ELSE LET ver == Lower(proc.text)
         IN  IF Contains(ver, MarkerMicrosoft) \/ Contains(ver, MarkerWsl)
             THEN IF IsFile(osrel)
                  THEN IF ReadExc(osrel) # "none"
                       THEN IF IsOSError(ReadExc(osrel))
                            THEN FallThrough
                            ELSE Raises(ReadExc(osrel))
                       ELSE IF Contains(Lower(osrel.text), MarkerUbuntu)
                            THEN Returns("wsl_ubuntu")
                            ELSE Returns("other")
                  ELSE Returns("other")
             ELSE FallThrough

\* lines 138-144: regular Linux
RegularLinux(osrel) ==
    IF IsFile(osrel)
    THEN IF ReadExc(osrel) # "none"
         THEN Raises(ReadExc(osrel))
         ELSE IF Contains(Lower(osrel.text), MarkerUbuntu)
              THEN Returns("ubuntu")
              ELSE Returns("other")
    ELSE Returns("other")

detect_environment(sys, proc, osrel) ==
    LET s == Lower(sys)
    IN  IF s = <<"d","a","r","w","i","n">> THEN Returns("macos")
        ELSE IF s = <<"w","i","n","d","o","w","s">> THEN Returns("windows")
        ELSE IF s = <<"l","i","n","u","x">>
             THEN IF WslCheck(proc, osrel) = FallThrough
                  THEN RegularLinux(osrel)
                  ELSE WslCheck(proc, osrel)
        ELSE Returns("other")

----------------------------------------------------------------------------
(* The environment mapping, the search path and ensure_pyenv_in_env        *)

\* Home is /h; the directories that can hold executables
HomePyenv == <<"/","h","/",".","p","y","e","n","v">>
BinSuffix == <<"/","b","i","n">>
UsrBin == <<"/","u","s","r","/","b","i","n">>
BrewBin == <<"/","o","p","t","/","b","r","e","w","/","b","i","n">>
Colon == <<":">>

\* Path(p).is_dir() for the directories the program asks about
IsDir(p, fsys) == p = HomePyenv /\ fsys.rootIsDir

\* an executable file named name exists in directory dir
HasExecutable(dir, name, fsys) ==
    \/ name = "pyenv" /\ dir = HomePyenv \o BinSuffix /\ fsys.rootHasBin
    \/ name = "pyenv" /\ dir = BrewBin /\ fsys.brewPyenv
    \/ name = "brew" /\ dir = BrewBin /\ fsys.brew

\* shutil.which(name, path=m["PATH"]) is not None
command_exists(name, m, fsys) ==
    LET dirs == Split(m.PATH, ":")
    IN  \E i \in 1..Len(dirs) : HasExecutable(dirs[i], name, fsys)

\* lines 158-163 applied to the dict object at reference r
AugmentEnv(h, r, fsys) ==
    LET root == IF h["os"].PYENV_ROOT \notin {NoText, <<>>}
                THEN h["os"].PYENV_ROOT
                ELSE HomePyenv
        bin_dir == root \o BinSuffix
    IN  IF IsDir(root, fsys)
        THEN [h EXCEPT ![r] =
                [@ EXCEPT !.PYENV_ROOT = root,
                          !.PATH = IF Contains(@, bin_dir)
                                   THEN @
                                   ELSE bin_dir \o Colon \o @]]
        ELSE h

\* A variant that writes the ambient os.environ instead of the dict passed in
ensure_pyenv_in_env_global(h, e, fsys) ==
    [heap |-> [AugmentEnv(h, "os", fsys) EXCEPT ![e] = AugmentEnv(h, "os", fsys)["os"]],
     ref |-> e]

\* ensure_pyenv_in_env: the dict passed in is updated in place and returned;
\* only a missing argument makes a copy of os.environ
ensure_pyenv_in_env(h, e, fsys) ==
    IF e = NoVal
    THEN [heap |-> AugmentEnv([h EXCEPT !["o1"] = h["os"]], "o1", fsys),
          ref |-> "o1"]
    ELSE [heap |-> AugmentEnv(h, e, fsys), ref |-> e]

----------------------------------------------------------------------------
(* append_to_shell_rc_if_missing                                           *)

InitMarker == <<"p","y","e","n","v"," ","i","n","i","t">>
Zsh == <<"z","s","h">>
NL == <<"\n">>

\* the snippet of lines 326-336, after dedent
Snippet ==
    <<"\n">> \o
    <<"#"," ","p","y","e","n","v"," ","c","o","n","f","i","g","u","r","a","t","i","o","n","\n">> \o
    <<"e","x","p","o","r","t"," ","P","Y","E","N","V","_","R","O","O","T","=","\"","$","H","O","M","E","/",".","p","y","e","n","v","\"","\n">> \o
    <<"c","o","m","m","a","n","d"," ","-","v"," ","p","y","e","n","v"," ",">","/","d","e","v","/","n","u","l","l"," ","|","|"," ","e","x","p","o","r","t"," ","P","A","T","H","=","\"","$","P","Y","E","N","V","_","R","O","O","T","/","b","i","n",":","$","P","A","T","H","\"","\n">> \o
    <<"e","v","a","l"," ","\"","$","(","p","y","e","n","v"," ","i","n","i","t"," ","-",")","\"","\n">> \o
    <<"i","f"," ","c","o","m","m","a","n","d"," ","-","v"," ","p","y","e","n","v","-","v","i","r","t","u","a","l","e","n","v","-","i","n","i","t"," ",">","/","d","e","v","/","n","u","l","l"," ","2",">","&","1",";"," ","t","h","e","n","\n">> \o
    <<" "," ","e","v","a","l"," ","\"","$","(","p","y","e","n","v"," ","v","i","r","t","u","a","l","e","n","v","-","i","n","i","t"," ","-",")","\"","\n">> \o
    <<"f","i","\n">>

\* lines 227-231: the startup file chosen from $SHELL
RcName(shell) == IF EndsWith(shell, Zsh) THEN "zshrc" ELSE "bashrc"

\* what lines 244-247 leave in the file whose text is text
AppendedText(text, snippet) ==
    text \o (IF EndsWith(text, NL) THEN <<>> ELSE NL)
         \o NL \o StripNL(snippet) \o NL

\* A variant without the marker test of line 236
append_to_shell_rc_always(snippet, shell, files, readable, writable) ==
    LET rc == RcName(shell)
        f == files[rc]
    IN  IF IsFile(f) /\ ~readable THEN files
        ELSE IF ~writable THEN files
        ELSE [files EXCEPT ![rc] = TextFile(AppendedText(f.text, snippet))]

\* append_to_shell_rc_if_missing; readable / writable say whether reading
\* the file and opening it for append succeed or raise OSError
append_to_shell_rc_if_missing(snippet, shell, files, readable, writable) ==
    LET rc == RcName(shell)
        f == files[rc]
    IN  IF IsFile(f) /\ ~readable THEN files
        ELSE IF IsFile(f) /\ Contains(f.text, InitMarker) THEN files
        ELSE IF ~writable THEN files
        ELSE [files EXCEPT ![rc] = TextFile(AppendedText(f.text, snippet))]

----------------------------------------------------------------------------
(* ask_yes_no                                                              *)

\* one line typed at a yes/no prompt
AnswerLines ==
    { <<>>, <<"y">>, <<" ","Y"," ">>, <<"y","e","s">>,
      <<"n">>, <<"N","O">>, <<"m","a","y","b","e">> }

\* one pass of the loop of lines 93-101 on the line raw: "True", "False",
\* or "again" when the loop prints its hint and reads another line
ask_yes_no(raw, default) ==
    LET ans == Lower(Strip(raw))
    IN  IF ans = <<>> /\ default # NoVal THEN default
        ELSE IF ans \in { <<"y">>, <<"y","e","s">> } THEN "True"
        ELSE IF ans \in { <<"n">>, <<"n","o">> } THEN "False"
        ELSE "again"

----------------------------------------------------------------------------
(* The pyenv tool: its catalogue and its listings                          *)

MaxN == 17          \* most versions `pyenv install --list` prints
MainN == 1          \* versions listed in the runs of the whole program
MenuSize == 15

\* the i-th version of pyenv's catalogue, "3.i.0"
Ver(i) == <<"3",".">> \o IntToStr(i) \o <<".","0">>

\* a well-formed version pyenv does not know
Unlisted == <<"9",".","9",".","9">>

Indent == <<" "," ">>

\* stdout of `pyenv install --list` when pyenv knows n versions: a header,
\* the indented versions in ascending order, and a development build
InstallListOutput(n) ==
    <<"A","v","a","i","l","a","b","l","e"," ","v","e","r","s","i","o","n","s",":","\n">>
    \o Join([i \in 1..n |-> Indent \o Ver(i) \o NL], <<>>)
    \o Indent \o <<"3",".","1","3","-","d","e","v","\n">>

DemoEnvName == <<"d","e","m","o","-","e","n","v">>

\* stdout of `pyenv versions --bare`: installed versions, then virtualenvs
VersionsBareOutput(p, n) ==
    Join(SelectSeq([i \in 1..n |-> Ver(i) \o NL],
                   LAMBDA l : SubSeq(l, 1, Len(l) - 1) \in p.installed), <<>>)
    \o (IF p.demoEnv # NoText
        THEN p.demoEnv \o <<"/","e","n","v","s","/">> \o DemoEnvName \o NL
             \o DemoEnvName \o NL
        ELSE <<>>)

\* stdout of `pyenv virtualenvs --bare`
VirtualenvsBareOutput(p) ==
    IF p.demoEnv # NoText
    THEN p.demoEnv \o <<"/","e","n","v","s","/">> \o DemoEnvName \o NL
         \o DemoEnvName \o NL
    ELSE <<>>

\* `pyenv virtualenv --help` can exit zero only with the plugin present
PluginAvailable(fsys) == fsys.plugin \/ fsys.brewVenv

\* lines 413-417: the stripped lines of out that match the version pattern
ParseVersions(out) ==
    LET lines == SplitLines(out)
    IN  SelectSeq([i \in 1..Len(lines) |-> Strip(lines[i])], VersionPattern)

\* list_available_versions: ok says whether `pyenv install --list` exited 0
list_available_versions(ok, out) == IF ok THEN ParseVersions(out) ELSE <<>>

\* lines 470 and 529: {line.strip() for line in out.splitlines() if line.strip()}
StrippedLines(out) ==
    LET lines == SplitLines(out)
    IN  {Strip(lines[i]) : i \in 1..Len(lines)} \ {<<>>}

----------------------------------------------------------------------------
(* prompt_for_version                                                      *)

InSeq(x, seq) == \E i \in 1..Len(seq) : seq[i] = x

\* A variant that shows the first entries instead of the last ones
LatestFirst(vs) == SubSeq(vs, 1, IF Len(vs) < MenuSize THEN Len(vs) ELSE MenuSize)

\* line 430: versions[-15:]
Latest(vs) ==
    SubSeq(vs, IF Len(vs) > MenuSize THEN Len(vs) - MenuSize + 1 ELSE 1, Len(vs))

\* A variant that never asks for confirmation
NeedsConfirmNever(c, vs) == FALSE

\* line 452: choice not in versions
NeedsConfirm(c, vs) == ~InSeq(c, vs)

QuitWords == { <<"q">>, <<"q","u","i","t">>, <<"e","x","i","t">> }

\* one pass of the loop of lines 437-460 on the line raw, up to the point
\* where it returns, reads again, or asks for confirmation
prompt_choice(raw, vs, shown) ==
    LET c == Strip(raw)
    IN  IF c = <<>> THEN [act |-> "again", val |-> NoText]
        ELSE IF Lower(c) \in QuitWords THEN [act |-> "return", val |-> NoText]
        ELSE IF IsDigit(c)
             THEN IF 0 <= StrToInt(c) - 1 /\ StrToInt(c) - 1 < Len(shown)
                  THEN [act |-> "return", val |-> shown[StrToInt(c)]]
                  ELSE [act |-> "again", val |-> NoText]
        ELSE IF VersionPattern(c)
             THEN IF NeedsConfirm(c, vs)
                  THEN [act |-> "confirm", val |-> c]
                  ELSE [act |-> "return", val |-> c]
        ELSE [act |-> "again", val |-> NoText]

\* the lines a user may type at the version prompt when n versions exist
InputLines(n) ==
    { <<>>, <<" ">>, <<"q">>, <<" ","Q">>, <<"l","a","t","e","s","t">>,
      <<"3",".","1","2">>, <<"3",".","1","2",".","4",".","5">>, Unlisted }
    \cup {IntToStr(k) : k \in 0..(n + 1)}
    \cup {<<" ">> \o IntToStr(1) \o <<" ">>}
    \cup {Ver(i) : i \in 1..n}

----------------------------------------------------------------------------
(* Initial states                                                          *)

Darwin == <<"D","a","r","w","i","n">>
Windows == <<"W","i","n","d","o","w","s">>
Linux == <<"L","i","n","u","x">>
FreeBSD == <<"F","r","e","e","B","S","D">>

ProcPlain == <<"L","i","n","u","x"," ","6",".","8","-","g","e","n","e","r","i","c">>
ProcWsl2 == <<"L","i","n","u","x"," ","5",".","1","5","-","m","i","c","r","o","s","o","f","t","-","W","S","L","2">>
ProcWsl1 == <<"L","i","n","u","x"," ","4",".","4","-","M","i","c","r","o","s","o","f","t">>
ProcWslOnly == <<"L","i","n","u","x"," ","6",".","1","-","W","S","L","2">>
RelUbuntu == <<"I","D","=","u","b","u","n","t","u">>
RelUbuntuName == <<"N","A","M","E","=","\"","U","b","u","n","t","u","\"">>
RelDebian == <<"I","D","=","d","e","b","i","a","n">>

ShellZsh == <<"/","b","i","n","/","z","s","h">>
ShellBash == <<"/","b","i","n","/","b","a","s","h">>

EmptyDict == [PATH |-> NoText, PYENV_ROOT |-> NoText, SHELL |-> NoText]

\* a startup file that already initialises pyenv
RcWithMarker ==
    TextFile(<<"e","v","a","l"," ","\"","$","(">> \o InitMarker \o <<" ","-",")","\"","\n">>)

NoRcHist == [applied |-> 0, wrote |-> 0]

\* a record of one run_cmd call: the line of the call, the command, the
\* version it names (if any) and how it ended
Call(line, cmd, arg, res) == [line |-> line, cmd |-> cmd, arg |-> arg, res |-> res]
NoCall == Call(0, "", NoText, "")

\* the locals of a run that has not started, and empty histories
FreshRun ==
    /\ env_name = NoVal
    /\ heap = [os |-> os_environ, o1 |-> EmptyDict]
    /\ raw_env = NoVal
    /\ env = NoVal
    /\ versions = <<>>
    /\ latest = <<>>
    /\ choice = NoText
    /\ confirmed = NoVal
    /\ version = NoText
    /\ installed = {}
    /\ installOk = NoVal
    /\ has_virtualenv = NoVal
    /\ raised = "none"
    /\ exitCode = Running
    /\ cmds = {}
    /\ last = NoCall
    /\ prompts = {}
    /\ rcHist = [init |-> rcFiles, first |-> rcFiles] @@ NoRcHist

\* the file systems a run can find: bin/pyenv and plugins/ lie under
\* ~/.pyenv, Homebrew exists on macOS only, git is always there on macOS
FileSystems(sys) ==
    { f \in [rootIsDir : BOOLEAN, rootHasBin : BOOLEAN, pluginsDir : BOOLEAN,
             plugin : BOOLEAN, brew : BOOLEAN, brewPyenv : BOOLEAN,
             brewVenv : BOOLEAN, git : BOOLEAN, demoDir : {FALSE},
             localPin : {NoText}] :
        /\ f.rootHasBin => f.rootIsDir
        /\ f.pluginsDir = f.plugin
        /\ f.plugin => f.rootHasBin
        /\ f.brew => sys = Darwin
        /\ f.brewPyenv => f.brew
        /\ f.brewVenv = f.brewPyenv
        /\ (sys = Darwin) => f.git }

\* the detection files of the runs of the whole program
LinuxHosts ==
    { <<TextFile(ProcPlain), TextFile(RelUbuntu)>>,
      <<TextFile(ProcWsl2), TextFile(RelUbuntu)>>,
      <<TextFile(ProcPlain), TextFile(RelDebian)>>,
      <<TextFile(ProcWsl2), NoPermFile>> }

\* the ambient environments: a shell set up for pyenv has both variables
Environments(sys) ==
    { [PATH |-> UsrBin, PYENV_ROOT |-> NoText, SHELL |-> sh] :
        sh \in IF sys = Linux THEN {ShellZsh, ShellBash} ELSE {ShellZsh} }
    \cup { [PATH |-> HomePyenv \o BinSuffix \o Colon \o UsrBin,
            PYENV_ROOT |-> r, SHELL |-> ShellZsh] : r \in {NoText, HomePyenv} }
    \cup (IF sys = Darwin
          THEN {[PATH |-> BrewBin \o Colon \o UsrBin, PYENV_ROOT |-> NoText,
                 SHELL |-> ShellZsh]}
          ELSE {})

\* the whole program, started on any supported or unsupported host
Init ==
    /\ pc = "main"
    /\ system \in {Darwin, Windows, Linux, FreeBSD}
    /\ \E h \in (IF system = Linux THEN LinuxHosts
                 ELSE {<<AbsentFile, AbsentFile>>}) :
         procVersion = h[1] /\ osRelease = h[2]
    /\ os_environ \in Environments(system)
    /\ fs \in FileSystems(system)
    /\ rcFiles \in {[zshrc |-> AbsentFile, bashrc |-> AbsentFile]}
                   \cup (IF system = Linux
                         THEN {[zshrc |-> RcWithMarker, bashrc |-> AbsentFile]}
                         ELSE {})
    /\ available = MainN
    /\ pyenv \in [installed : {{}} \cup {{Ver(1)} : i \in 1..available},
                  global : {NoText},
                  demoEnv : {NoText} \cup {Ver(1) : i \in 1..available}]
    /\ pyenv.demoEnv # NoText => pyenv.demoEnv \in pyenv.installed
    /\ FreshRun

----------------------------------------------------------------------------
(* Steps of a run.  Every external command and every line read from the    *)
(* user is one step; the code between two of them belongs to the step      *)
(* that precedes it.                                                       *)

inputs == <<system, procVersion, osRelease, os_environ, available>>
picker == <<versions, latest, choice, confirmed, version>>

\* run_cmd with check=True: exit status zero, or CalledProcessError
RunOutcomes == {"ok", "nonzero"}
\* subprocess.run raises FileNotFoundError when the executable is missing
LaunchOutcomes == {"ok", "nonzero", "oserror"}

calls == <<cmds, last>>

\* the run_cmd calls cs are made, in this order
Ran(cs) ==
    /\ cmds' = cmds \cup {cs[i].line : i \in 1..Len(cs)}
    /\ last' = cs[Len(cs)]

Goto(l) == pc' = l /\ UNCHANGED <<raised, exitCode>>

\* main returns code, and line 680 exits with it
Exit(code) == pc' = "exited" /\ exitCode' = code /\ UNCHANGED raised

\* an exception other than KeyboardInterrupt leaves main: the interpreter
\* prints the traceback and exits with status 1
Crash(e) == pc' = "exited" /\ exitCode' = 1 /\ raised' = e

\* os.environ.get("SHELL", "")
ShellOf(m) == IF m.SHELL = NoText THEN <<>> ELSE m.SHELL

\* lines 629-650
Detect ==
    /\ pc = "main"
    /\ LET r == detect_environment(system, procVersion, osRelease)
       IN  IF r.exc # "none"
           THEN /\ Crash(r.exc)
                /\ UNCHANGED <<env_name, heap, raw_env>>
           ELSE /\ env_name' = r.ret
                /\ heap' = [heap EXCEPT !["o1"] = heap["os"]]
                /\ raw_env' = "o1"
                /\ IF r.ret = "windows" THEN Exit(0)
                   ELSE IF r.ret = "other" THEN Exit(1)
                   ELSE Goto("ensure")
    /\ UNCHANGED <<inputs, picker, fs, rcFiles, pyenv, env, installed,
                   installOk, has_virtualenv, calls, prompts, rcHist>>

\* line 652 and lines 357-362, 176-178, 254-256: the call binds the
\* parameter env to the object raw_env names
EnsureEntry ==
    /\ pc = "ensure"
    /\ env' = raw_env
    /\ IF env_name = "macos"
       THEN /\ heap' = heap
            /\ IF command_exists("pyenv", heap[raw_env], fs)
               THEN Goto("ensure_check")
               ELSE Goto("mac_ask")
       ELSE IF env_name \in {"ubuntu", "wsl_ubuntu"}
       THEN IF command_exists("pyenv", heap[raw_env], fs)
            THEN /\ heap' = ensure_pyenv_in_env(heap, raw_env, fs).heap
                 /\ Goto("ensure_check")
            ELSE /\ heap' = heap
                 /\ Goto("ub_ask")
       ELSE /\ heap' = heap
            /\ Goto("ensure_check")
    /\ UNCHANGED <<inputs, picker, fs, rcFiles, pyenv, env_name, raw_env,
                   installed, installOk, has_virtualenv, calls, prompts, rcHist>>

\* line 181
MacAsk ==
    /\ pc = "mac_ask"
    /\ prompts' = prompts \cup {"install pyenv (macOS)"}
    /\ \E raw \in AnswerLines :
         LET a == ask_yes_no(raw, "True")
         IN  IF a = "again" THEN Goto("mac_ask")
             ELSE IF a = "False" THEN Goto("ensure_check")
             ELSE IF command_exists("brew", heap[env], fs) THEN Goto("mac_brew")
             ELSE Goto("mac_ask_curl")
    /\ UNCHANGED <<inputs, picker, fs, rcFiles, pyenv, env_name, heap, raw_env,
                   env, installed, installOk, has_virtualenv, calls, rcHist>>

\* lines 187-193 and 219
MacBrew ==
    /\ pc = "mac_brew"
    /\ \E r1 \in RunOutcomes, r2 \in RunOutcomes :
         /\ Ran(IF r1 = "ok"
                THEN <<Call(188, "brew update", NoText, r1),
                       Call(189, "brew install pyenv pyenv-virtualenv", NoText, r2)>>
                ELSE <<Call(188, "brew update", NoText, r1)>>)
         /\ fs' = IF r1 = "ok" /\ r2 = "ok"
                  THEN [fs EXCEPT !.brewPyenv = TRUE, !.brewVenv = TRUE]
                  ELSE fs
    /\ heap' = ensure_pyenv_in_env(heap, env, fs').heap
    /\ Goto("ensure_check")
    /\ UNCHANGED <<inputs, picker, rcFiles, pyenv, env_name, raw_env, env,
                   installed, installOk, has_virtualenv, prompts, rcHist>>

\* lines 209, 216-219
MacAskCurl ==
    /\ pc = "mac_ask_curl"
    /\ prompts' = prompts \cup {"run the official installer"}
    /\ \E raw \in AnswerLines :
         LET a == ask_yes_no(raw, "True")
         IN  IF a = "again" THEN Goto("mac_ask_curl") /\ heap' = heap
             ELSE IF a = "True" THEN Goto("mac_curl") /\ heap' = heap
             ELSE /\ heap' = ensure_pyenv_in_env(heap, env, fs).heap
                  /\ Goto("ensure_check")
    /\ UNCHANGED <<inputs, picker, fs, rcFiles, pyenv, env_name, raw_env,
                   env, installed, installOk, has_virtualenv, calls, rcHist>>

\* lines 210-215 and 219: the installer puts pyenv and its plugins
\* under ~/.pyenv
MacCurl ==
    /\ pc = "mac_curl"
    /\ \E r \in RunOutcomes :
         /\ Ran(<<Call(211, "curl https://pyenv.run | bash", NoText, r)>>)
         /\ fs' = IF r = "ok"
                  THEN [fs EXCEPT !.rootIsDir = TRUE, !.rootHasBin = TRUE,
                                  !.pluginsDir = TRUE, !.plugin = TRUE]
                  ELSE fs
    /\ heap' = ensure_pyenv_in_env(heap, env, fs').heap
    /\ Goto("ensure_check")
    /\ UNCHANGED <<inputs, picker, rcFiles, pyenv, env_name, raw_env, env,
                   installed, installOk, has_virtualenv, prompts, rcHist>>

\* line 259
UbAsk ==
    /\ pc = "ub_ask"
    /\ prompts' = prompts \cup {"install pyenv (git + apt)"}
    /\ \E raw \in AnswerLines :
         LET a == ask_yes_no(raw, "True")
         IN  IF a = "again" THEN Goto("ub_ask")
             ELSE IF a = "False" THEN Goto("ensure_check")
             ELSE Goto("ub_apt")
    /\ UNCHANGED <<inputs, picker, fs, rcFiles, pyenv, env_name, heap, raw_env,
                   env, installed, installOk, has_virtualenv, calls, rcHist>>

\* lines 283-292: only CalledProcessError is caught; a successful
\* `apt install` brings git
UbApt ==
    /\ pc = "ub_apt"
    /\ \E r1 \in LaunchOutcomes, r2 \in RunOutcomes :
         /\ Ran(IF r1 = "ok"
                THEN <<Call(284, "sudo apt update", NoText, r1),
                       Call(285, "sudo apt install", NoText, r2)>>
                ELSE <<Call(284, "sudo apt update", NoText, r1)>>)
         /\ fs' = IF r1 = "ok" /\ r2 = "ok" THEN [fs EXCEPT !.git = TRUE] ELSE fs
         /\ IF r1 = "oserror" THEN Crash("FileNotFoundError")
            ELSE IF fs.rootIsDir THEN Goto("ub_ask_plugin")
            ELSE Goto("ub_clone")
    /\ UNCHANGED <<inputs, picker, rcFiles, pyenv, env_name, heap, raw_env,
                   env, installed, installOk, has_virtualenv, prompts, rcHist>>

\* the ways `git clone` can end: it cannot start without git
GitOutcomes(fsys) == IF fsys.git THEN RunOutcomes ELSE {"oserror"}

\* lines 293-301: a failed clone removes the directory it created
UbClone ==
    /\ pc = "ub_clone"
    /\ \E r \in GitOutcomes(fs) :
         /\ Ran(<<Call(295, "git clone pyenv", NoText, r)>>)
         /\ fs' = IF r = "ok"
                  THEN [fs EXCEPT !.rootIsDir = TRUE, !.rootHasBin = TRUE]
                  ELSE fs
         /\ IF r = "oserror" THEN Crash("FileNotFoundError")
            ELSE Goto("ub_ask_plugin")
    /\ UNCHANGED <<inputs, picker, rcFiles, pyenv, env_name, heap, raw_env,
                   env, installed, installOk, has_virtualenv, prompts, rcHist>>

\* lines 304-310: mkdir(parents=True) creates ~/.pyenv when it is missing
UbAskPlugin ==
    /\ pc = "ub_ask_plugin"
    /\ prompts' = prompts \cup {"install pyenv-virtualenv plugin"}
    /\ \E raw \in AnswerLines :
         LET a == ask_yes_no(raw, "True")
         IN  IF a = "again" THEN Goto("ub_ask_plugin") /\ fs' = fs
             ELSE IF a = "False" THEN Goto("ub_rc") /\ fs' = fs
             ELSE /\ fs' = [fs EXCEPT !.rootIsDir = TRUE, !.pluginsDir = TRUE]
                  /\ IF fs.plugin THEN Goto("ub_rc") ELSE Goto("ub_clone_plugin")
    /\ UNCHANGED <<inputs, picker, rcFiles, pyenv, env_name, heap, raw_env,
                   env, installed, installOk, has_virtualenv, calls, rcHist>>

\* lines 311-324
UbClonePlugin ==
    /\ pc = "ub_clone_plugin"
    /\ \E r \in GitOutcomes(fs) :
         /\ Ran(<<Call(313, "git clone pyenv-virtualenv", NoText, r)>>)
         /\ fs' = IF r = "ok" THEN [fs EXCEPT !.plugin = TRUE] ELSE fs
         /\ IF r = "oserror" THEN Crash("FileNotFoundError")
            ELSE Goto("ub_rc")
    /\ UNCHANGED <<inputs, picker, rcFiles, pyenv, env_name, heap, raw_env,
                   env, installed, installOk, has_virtualenv, prompts, rcHist>>

\* the history of applications of append_to_shell_rc_if_missing
RcHistStep(h, before, after) ==
    [h EXCEPT !.applied = @ + 1,
              !.wrote = IF after # before THEN @ + 1 ELSE @,
              !.first = IF h.applied = 0 THEN after ELSE @]

\* lines 326-351
UbRc ==
    /\ pc = "ub_rc"
    /\ \E readable \in BOOLEAN, writable \in BOOLEAN :
         rcFiles' = append_to_shell_rc_if_missing(
                        Snippet, ShellOf(heap["os"]), rcFiles, readable, writable)
    /\ rcHist' = RcHistStep(rcHist, rcFiles, rcFiles')
    /\ heap' = ensure_pyenv_in_env(heap, env, fs).heap
    /\ Goto("ensure_check")
    /\ UNCHANGED <<inputs, picker, fs, pyenv, env_name, raw_env, env,
                   installed, installOk, has_virtualenv, calls, prompts>>


\* lines 364-372
EnsureCheck ==
    /\ pc = "ensure_check"
    /\ heap' = ensure_pyenv_in_env(heap, env, fs).heap
    /\ IF command_exists("pyenv", heap'[env], fs)
       THEN Goto("probe")
       ELSE Goto("main_check")
    /\ UNCHANGED <<inputs, picker, fs, rcFiles, pyenv, env_name, raw_env, env,
                   installed, installOk, has_virtualenv, calls, prompts, rcHist>>

\* the ways `pyenv virtualenv --help` can end
ProbeOutcomes(fsys) == IF PluginAvailable(fsys) THEN RunOutcomes ELSE {"nonzero"}

\* lines 374-397
Probe ==
    /\ pc = "probe"
    /\ \E r \in ProbeOutcomes(fs) :
         /\ Ran(<<Call(376, "pyenv virtualenv --help", NoText, r)>>)
         /\ has_virtualenv' = IF r = "ok" THEN "True" ELSE "False"
         /\ IF r # "ok" /\ env_name = "macos" /\ command_exists("brew", heap[env], fs)
            THEN Goto("mac_ask_plugin")
            ELSE Goto("main_check")
    /\ UNCHANGED <<inputs, picker, fs, rcFiles, pyenv, env_name, heap, raw_env,
                   env, installed, installOk, prompts, rcHist>>

\* line 384
MacAskPlugin ==
    /\ pc = "mac_ask_plugin"
    /\ prompts' = prompts \cup {"install pyenv-virtualenv with Homebrew"}
    /\ \E raw \in AnswerLines :
         LET a == ask_yes_no(raw, "True")
         IN  IF a = "again" THEN Goto("mac_ask_plugin")
             ELSE IF a = "True" THEN Goto("mac_brew_plugin")
             ELSE Goto("main_check")
    /\ UNCHANGED <<inputs, picker, fs, rcFiles, pyenv, env_name, heap, raw_env,
                   env, installed, installOk, has_virtualenv, calls, rcHist>>

\* lines 385-389
MacBrewPlugin ==
    /\ pc = "mac_brew_plugin"
    /\ \E r \in RunOutcomes :
         /\ Ran(<<Call(386, "brew install pyenv-virtualenv", NoText, r)>>)
         /\ fs' = IF r = "ok" THEN [fs EXCEPT !.brewVenv = TRUE] ELSE fs
         /\ has_virtualenv' = IF r = "ok" THEN "True" ELSE has_virtualenv
    /\ Goto("main_check")
    /\ UNCHANGED <<inputs, picker, rcFiles, pyenv, env_name, heap, raw_env,
                   env, installed, installOk, prompts, rcHist>>

\* lines 654-656
MainCheck ==
    /\ pc = "main_check"
    /\ IF ~command_exists("pyenv", heap[env], fs) THEN Exit(1) ELSE Goto("list")
    /\ UNCHANGED <<inputs, picker, fs, rcFiles, pyenv, env_name, heap, raw_env,
                   env, installed, installOk, has_virtualenv, calls, prompts,
                   rcHist>>

\* lines 658-661 with 425-435 and 403-421
ListVersions ==
    /\ pc = "list"
    /\ \E ok \in BOOLEAN :
         /\ Ran(<<Call(406, "pyenv install --list", NoText,
                                      IF ok THEN "ok" ELSE "nonzero")>>)
         /\ versions' = list_available_versions(ok, InstallListOutput(available))
    /\ IF versions' = <<>>
       THEN /\ latest' = latest
            /\ Exit(0)
       ELSE /\ latest' = Latest(versions')
            /\ Goto("choose")
    /\ UNCHANGED <<inputs, choice, confirmed, version, fs, rcFiles, pyenv,
                   env_name, heap, raw_env, env, installed, installOk,
                   has_virtualenv, prompts, rcHist>>

\* lines 437-460 up to the confirmation prompt, and lines 658-661
Choose ==
    /\ pc = "choose"
    /\ prompts' = prompts \cup {"version"}
    /\ confirmed' = NoVal
    /\ \E raw \in InputLines(available) :
         LET r == prompt_choice(raw, versions, latest)
         IN  /\ choice' = Strip(raw)
             /\ IF r.act = "again" THEN Goto("choose") /\ version' = version
                ELSE IF r.act = "confirm" THEN Goto("confirm") /\ version' = version
                ELSE /\ version' = r.val
                     /\ IF r.val = NoText THEN Exit(0) ELSE Goto("versions_bare")
    /\ UNCHANGED <<inputs, versions, latest, fs, rcFiles, pyenv, env_name, heap,
                   raw_env, env, installed, installOk, has_virtualenv, calls,
                   rcHist>>

\* lines 453-458
Confirm ==
    /\ pc = "confirm"
    /\ prompts' = prompts \cup {"try installing it"}
    /\ \E raw \in AnswerLines :
         LET a == ask_yes_no(raw, "True")
         IN  IF a = "again"
             THEN Goto("confirm") /\ UNCHANGED <<confirmed, version>>
             ELSE IF a = "True"
             THEN /\ confirmed' = "True"
                  /\ version' = choice
                  /\ Goto("versions_bare")
             ELSE /\ confirmed' = "False"
                  /\ version' = version
                  /\ Goto("choose")
    /\ UNCHANGED <<inputs, versions, latest, choice, fs, rcFiles, pyenv,
                   env_name, heap, raw_env, env, installed, installOk,
                   has_virtualenv, calls, rcHist>>

\* A variant that never finds the version installed
AlreadyInstalledNever(v, inst) == FALSE

\* line 471: version in installed
AlreadyInstalled(v, inst) == v \in inst

\* lines 463-475; the locals of prompt_for_version are gone by now
VersionsBare ==
    /\ pc = "versions_bare"
    /\ \E ok \in BOOLEAN :
         /\ Ran(<<Call(466, "pyenv versions --bare", NoText,
                                      IF ok THEN "ok" ELSE "nonzero")>>)
         /\ installed' = StrippedLines(IF ok THEN VersionsBareOutput(pyenv, available)
                                             ELSE <<>>)
    /\ IF AlreadyInstalled(version, installed')
       THEN installOk' = "True" /\ Goto("ask_global")
       ELSE installOk' = installOk /\ Goto("install")
    /\ choice' = NoText
    /\ confirmed' = NoVal
    /\ UNCHANGED <<inputs, versions, latest, version, fs, rcFiles, pyenv,
                   env_name, heap, raw_env, env, has_virtualenv, prompts, rcHist>>

\* the ways `pyenv install v` can end: pyenv builds only what it knows
InstallOutcomes(v, n) ==
    IF \E i \in 1..n : Ver(i) = v THEN RunOutcomes ELSE {"nonzero"}

\* A variant in which main goes on after a failed install
InstallContinue ==
    /\ pc = "install"
    /\ \E r \in InstallOutcomes(version, available) :
         /\ Ran(<<Call(477, "pyenv install", version, r)>>)
         /\ pyenv' = IF r = "ok" THEN [pyenv EXCEPT !.installed = @ \cup {version}]
                     ELSE pyenv
         /\ installOk' = IF r = "ok" THEN "True" ELSE "False"
         /\ Goto("ask_global")
    /\ UNCHANGED <<inputs, picker, fs, rcFiles, env_name, heap, raw_env, env,
                   installed, has_virtualenv, prompts, rcHist>>

\* lines 476-483 and 663-665
Install ==
    /\ pc = "install"
    /\ \E r \in InstallOutcomes(version, available) :
         /\ Ran(<<Call(477, "pyenv install", version, r)>>)
         /\ IF r = "ok"
            THEN /\ pyenv' = [pyenv EXCEPT !.installed = @ \cup {version}]
                 /\ installOk' = "True"
                 /\ Goto("ask_global")
            ELSE /\ pyenv' = pyenv
                 /\ installOk' = "False"
                 /\ Exit(1)
    /\ UNCHANGED <<inputs, picker, fs, rcFiles, env_name, heap, raw_env, env,
                   installed, has_virtualenv, prompts, rcHist>>

\* lines 487-490
AskGlobal ==
    /\ pc = "ask_global"
    /\ prompts' = prompts \cup {"set global"}
    /\ \E raw \in AnswerLines :
         LET a == ask_yes_no(raw, "False")
         IN  IF a = "again" THEN Goto("ask_global")
             ELSE IF a = "True" THEN Goto("global")
             ELSE Goto("ask_demo")
    /\ UNCHANGED <<inputs, picker, fs, rcFiles, pyenv, env_name, heap, raw_env,
                   env, installed, installOk, has_virtualenv, calls, rcHist>>

\* lines 491-498
Global ==
    /\ pc = "global"
    /\ \E r \in RunOutcomes :
         /\ Ran(<<Call(492, "pyenv global", version, r)>>)
         /\ pyenv' = IF r = "ok" THEN [pyenv EXCEPT !.global = version] ELSE pyenv
    /\ Goto("ask_demo")
    /\ UNCHANGED <<inputs, picker, fs, rcFiles, env_name, heap, raw_env, env,
                   installed, installOk, has_virtualenv, prompts, rcHist>>

\* lines 669-675
AskDemo ==
    /\ pc = "ask_demo"
    /\ prompts' = prompts \cup {"create demo"}
    /\ \E raw \in AnswerLines :
         LET a == ask_yes_no(raw, "True")
         IN  IF a = "again" THEN Goto("ask_demo")
             ELSE IF a = "True" THEN Goto("demo_probe")
             ELSE Exit(0)
    /\ UNCHANGED <<inputs, picker, fs, rcFiles, pyenv, env_name, heap, raw_env,
                   env, installed, installOk, has_virtualenv, calls, rcHist>>

\* lines 507-524, and 674-675 when the plugin is missing
DemoProbe ==
    /\ pc = "demo_probe"
    /\ \E r \in ProbeOutcomes(fs) :
         /\ Ran(<<Call(509, "pyenv virtualenv --help", NoText, r)>>)
         /\ IF r = "ok"
            THEN fs' = [fs EXCEPT !.demoDir = TRUE] /\ Goto("demo_list")
            ELSE fs' = fs /\ Exit(0)
    /\ UNCHANGED <<inputs, picker, rcFiles, pyenv, env_name, heap, raw_env, env,
                   installed, installOk, has_virtualenv, prompts, rcHist>>

\* lines 526-537
DemoList ==
    /\ pc = "demo_list"
    /\ \E ok \in BOOLEAN :
         LET existing_envs == IF ok THEN StrippedLines(VirtualenvsBareOutput(pyenv))
                                    ELSE {}
         IN  /\ Ran(<<Call(528, "pyenv virtualenvs --bare", NoText,
                                          IF ok THEN "ok" ELSE "nonzero")>>)
             /\ IF DemoEnvName \in existing_envs
                THEN Goto("demo_local")
                ELSE Goto("demo_create")
    /\ UNCHANGED <<inputs, picker, fs, rcFiles, pyenv, env_name, heap, raw_env,
                   env, installed, installOk, has_virtualenv, prompts, rcHist>>

\* the ways `pyenv virtualenv v demo-env` can end: it refuses a name in use
CreateOutcomes(p) == IF p.demoEnv = NoText THEN RunOutcomes ELSE {"nonzero"}

\* lines 538-542, and 674-675 when the creation fails
DemoCreate ==
    /\ pc = "demo_create"
    /\ \E r \in CreateOutcomes(pyenv) :
         /\ Ran(<<Call(539, "pyenv virtualenv", version, r)>>)
         /\ IF r = "ok"
            THEN pyenv' = [pyenv EXCEPT !.demoEnv = version] /\ Goto("demo_local")
            ELSE pyenv' = pyenv /\ Exit(0)
    /\ UNCHANGED <<inputs, picker, fs, rcFiles, env_name, heap, raw_env, env,
                   installed, installOk, has_virtualenv, prompts, rcHist>>

\* lines 544-552
DemoLocal ==
    /\ pc = "demo_local"
    /\ \E r \in RunOutcomes :
         /\ Ran(<<Call(546, "pyenv local demo-env", NoText, r)>>)
         /\ fs' = IF r = "ok" THEN [fs EXCEPT !.localPin = DemoEnvName] ELSE fs
    /\ Goto("demo_shell")
    /\ UNCHANGED <<inputs, picker, rcFiles, pyenv, env_name, heap, raw_env, env,
                   installed, installOk, has_virtualenv, prompts, rcHist>>

\* lines 554-580 and 674-675: `except Exception` catches every failure
DemoShell ==
    /\ pc = "demo_shell"
    /\ \E r \in LaunchOutcomes :
         Ran(<<Call(561, "bash -lc demo", NoText, r)>>)
    /\ Exit(0)
    /\ UNCHANGED <<inputs, picker, fs, rcFiles, pyenv, env_name, heap, raw_env,
                   env, installed, installOk, has_virtualenv, prompts, rcHist>>

\* lines 678-683: Ctrl-C at any point of the run
Interrupt ==
    /\ pc # "exited"
    /\ pc' = "exited"
    /\ raised' = "KeyboardInterrupt"
    /\ exitCode' = 1
    /\ UNCHANGED <<inputs, picker, fs, rcFiles, pyenv, env_name, heap, raw_env,
                   env, installed, installOk, has_virtualenv, calls, prompts,
                   rcHist>>

Next ==
    \/ Detect \/ EnsureEntry
    \/ MacAsk \/ MacBrew \/ MacAskCurl \/ MacCurl
    \/ UbAsk \/ UbApt \/ UbClone \/ UbAskPlugin \/ UbClonePlugin \/ UbRc
    \/ EnsureCheck \/ Probe \/ MacAskPlugin \/ MacBrewPlugin \/ MainCheck
    \/ ListVersions \/ Choose \/ Confirm
    \/ VersionsBare \/ Install \/ AskGlobal \/ Global
    \/ AskDemo \/ DemoProbe \/ DemoList \/ DemoCreate \/ DemoLocal \/ DemoShell
    \/ Interrupt

Spec == Init /\ [][Next]_vars

----------------------------------------------------------------------------
(* detect_environment on every host                                        *)

\* the states of /proc/version and /etc/os-release
ProcFiles ==
    {AbsentFile, NoPermFile, BadUtf8File, TextFile(ProcPlain), TextFile(ProcWsl2),
     TextFile(ProcWsl1), TextFile(ProcWslOnly)}
RelFiles ==
    {AbsentFile, NoPermFile, BadUtf8File, TextFile(RelUbuntu),
     TextFile(RelUbuntuName), TextFile(RelDebian), TextFile(<<>>)}

BareFileSystem ==
    [rootIsDir |-> FALSE, rootHasBin |-> FALSE, pluginsDir |-> FALSE,
     plugin |-> FALSE, brew |-> FALSE, brewPyenv |-> FALSE, brewVenv |-> FALSE,
     git |-> TRUE, demoDir |-> FALSE, localPin |-> NoText]

NoPyenv == [installed |-> {}, global |-> NoText, demoEnv |-> NoText]

DetectInit ==
    /\ pc = "main"
    /\ system \in {Darwin, Windows, Linux, FreeBSD}
    /\ procVersion \in ProcFiles
    /\ osRelease \in RelFiles
    /\ os_environ = [PATH |-> UsrBin, PYENV_ROOT |-> NoText, SHELL |-> ShellBash]
    /\ fs = BareFileSystem
    /\ rcFiles = [zshrc |-> AbsentFile, bashrc |-> AbsentFile]
    /\ available = 0
    /\ pyenv = NoPyenv
    /\ FreshRun

SpecDetect == DetectInit /\ [][Detect]_vars

----------------------------------------------------------------------------
(* prompt_for_version on every length of pyenv's list                      *)

PyenvFileSystem ==
    [BareFileSystem EXCEPT !.rootIsDir = TRUE, !.rootHasBin = TRUE]

\* a run on Ubuntu that found pyenv without the plugin and is about to
\* call prompt_for_version
PromptInit ==
    /\ pc = "list"
    /\ system = Linux
    /\ procVersion = TextFile(ProcPlain)
    /\ osRelease = TextFile(RelUbuntu)
    /\ os_environ = [PATH |-> HomePyenv \o BinSuffix \o Colon \o UsrBin,
                     PYENV_ROOT |-> HomePyenv, SHELL |-> ShellBash]
    /\ fs = PyenvFileSystem
    /\ rcFiles = [zshrc |-> AbsentFile, bashrc |-> RcWithMarker]
    /\ available \in 0..MaxN
    /\ pyenv = NoPyenv
    /\ env_name = "ubuntu"
    /\ heap = [os |-> os_environ, o1 |-> os_environ]
    /\ raw_env = "o1"
    /\ env = "o1"
    /\ versions = <<>>
    /\ latest = <<>>
    /\ choice = NoText
    /\ confirmed = NoVal
    /\ version = NoText
    /\ installed = {}
    /\ installOk = NoVal
    /\ has_virtualenv = "False"
    /\ raised = "none"
    /\ exitCode = Running
    /\ cmds = {376}
    /\ last = Call(376, "pyenv virtualenv --help", NoText, "nonzero")
    /\ prompts = {}
    /\ rcHist = [init |-> rcFiles, first |-> rcFiles] @@ NoRcHist

SpecPrompt == PromptInit /\ [][ListVersions \/ Choose \/ Confirm]_vars

----------------------------------------------------------------------------
(* append_to_shell_rc_if_missing applied again and again                   *)

MaxRcFrags == 3     \* pieces a startup file is put together from
MaxApply == 3       \* applications of append_to_shell_rc_if_missing

RcFragments ==
    { InitMarker, <<"p","y","e","n","v">>, <<" ","i","n","i","t">>, NL, <<"x">> }

\* the texts put together from at most k fragments
RECURSIVE RcTexts(_)
RcTexts(k) ==
    IF k = 0 THEN {<<>>}
    ELSE RcTexts(k - 1) \cup {t \o f : t \in RcTexts(k - 1), f \in RcFragments}

RcInit ==
    /\ pc = "rc"
    /\ system = Linux
    /\ procVersion = TextFile(ProcPlain)
    /\ osRelease = TextFile(RelUbuntu)
    /\ os_environ \in [PATH : {UsrBin}, PYENV_ROOT : {NoText},
                       SHELL : {ShellZsh, ShellBash, NoText}]
    /\ fs = BareFileSystem
    /\ \E f \in {AbsentFile} \cup {TextFile(t) : t \in RcTexts(MaxRcFrags)} :
         rcFiles = [[zshrc |-> AbsentFile, bashrc |-> AbsentFile]
                       EXCEPT ![RcName(ShellOf(os_environ))] = f]
    /\ available = 0
    /\ pyenv = NoPyenv
    /\ FreshRun

\* one call of append_to_shell_rc_if_missing(snippet), as at line 337
RcApply ==
    /\ pc = "rc"
    /\ rcHist.applied < MaxApply
    /\ \E readable \in BOOLEAN, writable \in BOOLEAN :
         rcFiles' = append_to_shell_rc_if_missing(
                        Snippet, ShellOf(heap["os"]), rcFiles, readable, writable)
    /\ rcHist' = RcHistStep(rcHist, rcFiles, rcFiles')
    /\ UNCHANGED <<inputs, picker, fs, pyenv, pc, env_name, heap, raw_env, env,
                   installed, installOk, has_virtualenv, raised, exitCode,
                   calls, prompts>>

SpecRc == RcInit /\ [][RcApply]_vars

----------------------------------------------------------------------------
(* The program run again and again on one Ubuntu machine                   *)

RunsN == 2          \* versions pyenv knows on the machine that is re-run

\* a fresh Ubuntu machine: no ~/.pyenv, no startup file, nothing installed;
\* git may be missing until apt brings it
RunsInit ==
    /\ pc = "main"
    /\ system = Linux
    /\ procVersion = TextFile(ProcPlain)
    /\ osRelease = TextFile(RelUbuntu)
    /\ os_environ = [PATH |-> UsrBin, PYENV_ROOT |-> NoText, SHELL |-> ShellBash]
    /\ fs \in {BareFileSystem, [BareFileSystem EXCEPT !.git = FALSE]}
    /\ rcFiles = [zshrc |-> AbsentFile, bashrc |-> AbsentFile]
    /\ available = RunsN
    /\ pyenv = NoPyenv
    /\ FreshRun

\* lines 678-683 once more: the process has exited and the user starts the
\* script again in the same shell; files and pyenv's state stay, the
\* process starts from nothing
Restart ==
    /\ pc = "exited"
    /\ pc' = "main"
    /\ env_name' = NoVal
    /\ heap' = [os |-> os_environ, o1 |-> EmptyDict]
    /\ raw_env' = NoVal
    /\ env' = NoVal
    /\ versions' = <<>>
    /\ latest' = <<>>
    /\ choice' = NoText
    /\ confirmed' = NoVal
    /\ version' = NoText
    /\ installed' = {}
    /\ installOk' = NoVal
    /\ has_virtualenv' = NoVal
    /\ raised' = "none"
    /\ exitCode' = Running
    /\ cmds' = {}
    /\ last' = NoCall
    /\ prompts' = {}
    /\ rcHist' = [init |-> rcFiles, first |-> rcFiles] @@ NoRcHist
    /\ UNCHANGED <<inputs, fs, rcFiles, pyenv>>

\* the steps of a run on Ubuntu
UbuntuRun ==
    \/ Detect \/ EnsureEntry
    \/ UbAsk \/ UbApt \/ UbClone \/ UbAskPlugin \/ UbClonePlugin \/ UbRc
    \/ EnsureCheck \/ Probe \/ MainCheck
    \/ ListVersions \/ Choose \/ Confirm
    \/ VersionsBare \/ Install \/ AskGlobal \/ Global
    \/ AskDemo \/ DemoProbe \/ DemoList \/ DemoCreate \/ DemoLocal \/ DemoShell
    \/ Interrupt

SpecRuns == RunsInit /\ [][UbuntuRun \/ Restart]_vars

----------------------------------------------------------------------------
(* Properties                                                              *)

Min(a, b) == IF a < b THEN a ELSE b

Supported == {"macos", "ubuntu", "wsl_ubuntu"}

\* main returned (no exception left it)
Returned == pc = "exited" /\ raised = "none"

\* C1: the exit code is 0 exactly when the run ends on the Windows guidance
\* path, on a "no version selected" early exit, or after completing all
\* steps; it is 1 exactly when the environment is classified Other, pyenv is
\* still not on the search path after the ensure step, the chosen version
\* failed to install, or the operator interrupted the run.
C1_ExitCodes ==
    pc = "exited" =>
        /\ exitCode = 0 <=>
             /\ raised = "none"
             /\ \/ env_name = "windows"
                \/ 406 \in cmds /\ version = NoText
                \/ installOk = "True"
        /\ exitCode = 1 <=>
             \/ raised = "KeyboardInterrupt"
             \/ /\ raised = "none"
                /\ \/ env_name = "other"
                   \/ env # NoVal /\ ~command_exists("pyenv", heap[env], fs)
                   \/ installOk = "False"

\* the classification the decision policy prescribes for the host
HasWslMarker ==
    /\ procVersion.kind = "text"
    /\ \/ Contains(Lower(procVersion.text), MarkerMicrosoft)
       \/ Contains(Lower(procVersion.text), MarkerWsl)
MentionsUbuntu ==
    /\ osRelease.kind = "text"
    /\ Contains(Lower(osRelease.text), MarkerUbuntu)
PolicyClass ==
    IF system = Darwin THEN "macos"
    ELSE IF system = Windows THEN "windows"
    ELSE IF system = Linux
         THEN IF HasWslMarker
              THEN IF MentionsUbuntu THEN "wsl_ubuntu" ELSE "other"
              ELSE IF MentionsUbuntu THEN "ubuntu" ELSE "other"
    ELSE "other"

\* C2: detect_environment returns exactly one of the five classes, the one
\* the decision policy prescribes: Darwin gives macOS, Windows gives Windows,
\* Linux with a WSL marker gives WSL-Ubuntu or Other, Linux without one gives
\* Ubuntu or Other, by whether /etc/os-release mentions Ubuntu; any other
\* system gives Other.
C2_DecisionPolicy ==
    pc # "main" =>
        /\ raised = "none"
        /\ env_name \in {"macos", "ubuntu", "wsl_ubuntu", "windows", "other"}
        /\ env_name = PolicyClass

\* C3: on Linux, when /proc/version or /etc/os-release is absent or cannot be
\* read, or when neither file carries a marker, detect_environment does not
\* raise and returns Other.
C3_DegradesToOther ==
    ( /\ pc # "main"
      /\ system = Linux
      /\ \/ procVersion.kind # "text"
         \/ osRelease.kind # "text"
         \/ ~HasWslMarker /\ ~MentionsUbuntu )
    => raised = "none" /\ env_name = "other"

\* C4: for a fetched list of N well-formed versions the menu holds the last
\* min(N, 15) of them in list order; the index k with 1 <= k <= min(N, 15)
\* returns the k-th entry of the menu; the indexes 0 and N + 1 are rejected
\* and the prompt is repeated without returning.
C4_MenuAndIndex ==
    versions # <<>> =>
        /\ Len(versions) = available
        /\ Len(latest) = Min(available, MenuSize)
        /\ \A k \in 1..Len(latest) :
             latest[k] = versions[available - Len(latest) + k]
        /\ \A k \in 1..Min(available, MenuSize) :
             choice = IntToStr(k) =>
                 pc = "versions_bare" /\ version = latest[k]
        /\ \A k \in {0, available + 1} :
             choice = IntToStr(k) => pc = "choose" /\ version = NoText

\* a list longer than the menu, and the last index of the menu chosen
C4_Witness ==
    /\ available = MaxN
    /\ pc = "versions_bare"
    /\ choice = IntToStr(MenuSize)
    /\ version = Ver(available)

\* C5 as stated: a literal version outside the displayed slice is returned
\* only after the user answered yes to the confirmation prompt, and a
\* declined confirmation re-prompts without returning it.
C5_ConfirmOutsideSlice ==
    /\ ( pc = "versions_bare" /\ VersionPattern(choice) /\ ~InSeq(choice, latest) )
         => confirmed = "True"
    /\ confirmed = "False" => pc = "choose" /\ version = NoText

\* C5, amended: a literal version that is not in the fetched list is returned
\* only after the user answered yes to the confirmation prompt, and a
\* declined confirmation re-prompts without returning it; a literal version
\* in the fetched list is returned without confirmation, inside the
\* displayed slice or not.
C5_ConfirmOutsideList ==
    /\ ( pc = "versions_bare" /\ VersionPattern(choice) /\ ~InSeq(choice, versions) )
         => confirmed = "True" /\ version = choice
    /\ confirmed = "False" => pc = "choose" /\ version = NoText
    /\ ( pc # "list" /\ VersionPattern(choice) /\ InSeq(choice, versions) )
         => pc = "versions_bare" /\ version = choice /\ confirmed = NoVal

\* an unknown version, confirmed and returned
C5_Witness ==
    /\ pc = "versions_bare"
    /\ choice = Unlisted
    /\ confirmed = "True"
    /\ version = Unlisted

\* the startup file of the shell, before and now
RcTarget == RcName(ShellOf(os_environ))
HasMarker(f) == Contains(f.text, InitMarker)

\* C6 as stated: applying append_to_shell_rc_if_missing any number of times
\* gives the content one application gives; a file without the marker holds
\* it exactly once afterwards; a file with the marker is left unchanged.
C6_Idempotent ==
    rcHist.applied >= 1 =>
        /\ rcFiles = rcHist.first
        /\ ~HasMarker(rcHist.init[RcTarget]) =>
               Occurrences(rcFiles[RcTarget].text, InitMarker) = 1
        /\ HasMarker(rcHist.init[RcTarget]) => rcFiles = rcHist.init

\* C6, amended: a file with the marker is left unchanged; a file without it
\* is changed by at most one application, the first that can read it and
\* open it for append, and then holds the marker exactly once; until then
\* it is unchanged.
C6_AppendsAtMostOnce ==
    /\ rcHist.wrote <= 1
    /\ HasMarker(rcHist.init[RcTarget]) => rcFiles = rcHist.init
    /\ rcHist.wrote = 0 => rcFiles = rcHist.init
    /\ rcHist.wrote = 1 =>
         /\ Occurrences(rcFiles[RcTarget].text, InitMarker) = 1
         /\ \A n \in DOMAIN rcFiles : n # RcTarget => rcFiles[n] = rcHist.init[n]

\* a file without the marker, appended to once and then applied to again
C6_Witness ==
    /\ rcHist.applied >= 2
    /\ rcHist.wrote = 1
    /\ ~HasMarker(rcHist.init[RcTarget])
    /\ rcHist.init[RcTarget].text # <<>>

\* C7: ensure_version_installed runs `pyenv install <version>` if and only
\* if the version is not in the bare listing; it returns true when the
\* version was listed or the install exited zero, false when the install
\* exited non-zero, and a non-zero exit of either subcommand raises nothing.
C7_InstallIffMissing ==
    /\ 477 \in cmds => version \notin installed
    /\ installOk # NoVal => (477 \in cmds <=> version \notin installed)
    /\ installOk = "True" => version \in installed \/ 477 \in cmds
    /\ ( 466 \in cmds /\ version \in installed ) => installOk = "True"
    /\ last.line = 477 =>
         /\ last.arg = version
         /\ installOk = (IF last.res = "ok" THEN "True" ELSE "False")
    /\ installOk = "False" <=> (last.line = 477 /\ last.res = "nonzero")
    /\ ( last.line \in {466, 477} /\ last.res = "nonzero" )
         => raised \in {"none", "KeyboardInterrupt"}

\* the version was in the listing and no install was run
C7_Witness ==
    /\ installOk = "True"
    /\ version \in installed
    /\ 466 \in cmds
    /\ 477 \notin cmds

\* C8: a failure of the apt dependency installation, of `pyenv global` or of
\* the demo subshell is caught: no exception leaves main because of it, the
\* run goes on, and a run that ends there ends with exit code 0.
C8_AdvisoryCaught ==
    ( last.line \in {284, 285, 492, 561} /\ last.res # "ok" ) =>
        /\ raised \in {"none", "KeyboardInterrupt"}
        /\ Returned => exitCode = 0

\* C9 as stated: no operation modifies the mapping its caller passed in, nor
\* the ambient process environment.
C9_PassedByCopy ==
    /\ heap["os"] = os_environ
    /\ raw_env # NoVal => heap[raw_env] = os_environ

\* C9, amended: the ambient process environment is never modified; the one
\* copy main makes is augmented in place, PATH by prepending and PYENV_ROOT
\* by setting, and the mapping an operation returns is the object it was
\* passed.
C9_AmbientUntouched ==
    /\ heap["os"] = os_environ
    /\ env # NoVal => env = raw_env
    /\ raw_env # NoVal =>
         /\ heap[raw_env].SHELL = os_environ.SHELL
         /\ EndsWith(heap[raw_env].PATH, os_environ.PATH)
         /\ heap[raw_env].PYENV_ROOT \in {os_environ.PYENV_ROOT, HomePyenv}

\* the copy main passed in has been augmented, os.environ has not
C9_Witness ==
    /\ raw_env # NoVal
    /\ heap[raw_env].PATH # os_environ.PATH
    /\ heap[raw_env].PYENV_ROOT # os_environ.PYENV_ROOT
    /\ heap["os"] = os_environ

\* the stage a run_cmd call or a prompt belongs to
StageOfCall(l) ==
    IF l \in {188, 189, 211, 284, 285, 295, 313, 376, 386} THEN 2
    ELSE IF l = 406 THEN 3
    ELSE IF l \in {466, 477} THEN 4
    ELSE IF l = 492 THEN 5
    ELSE 6
StageOfPrompt(q) ==
    IF q \in {"version", "try installing it"} THEN 3
    ELSE IF q = "set global" THEN 5
    ELSE IF q = "create demo" THEN 6
    ELSE 2
StagesSoFar ==
    {StageOfCall(l) : l \in cmds} \cup {StageOfPrompt(q) : q \in prompts}
NewStages ==
    {StageOfCall(l) : l \in cmds' \ cmds} \cup {StageOfPrompt(q) : q \in prompts' \ prompts}

\* C10: commands and prompts occur in the order ensure tool, pick version,
\* install version, set global, demo, and only after detection classified
\* the host as supported; the version listing and the version prompt only
\* with pyenv on the search path; `pyenv versions` and `pyenv install` only
\* with a version selected, the install naming it; `pyenv global`, the demo
\* commands and their prompts only after ensure_version_installed returned
\* true.
C10_StageOrder ==
    [][ \A st \in NewStages :
          /\ env_name \in Supported
          /\ \A earlier \in StagesSoFar : earlier <= st
          /\ st >= 3 => command_exists("pyenv", heap[env], fs)
          /\ st >= 4 => version # NoText
          /\ 477 \in cmds' \ cmds => last'.arg = version
          /\ st >= 5 => installOk = "True" ]_vars

\* a run that installed pyenv, installed a version, set it global and ran
\* the demo
C10_Witness ==
    /\ pc = "exited"
    /\ {295, 406, 477, 492, 561} \subseteq cmds

\* C11: whenever create_demo_virtualenv, called with the chosen version,
\* reaches the step that pins the demo directory (line 546), the virtual
\* environment demo-env exists and is bound to that version; this holds in
\* every run of a sequence of runs, also when an earlier run created
\* demo-env for another version.
C11_DemoEnvBoundToChosen ==
    pc = "demo_local" => pyenv.demoEnv = version

\* C12: in the Ubuntu install flow ~/.pyenv comes into existence only by a
\* pyenv clone that succeeded, so at the end of a run it exists only if it
\* existed before the run or the clone succeeded in the run; and a run on a
\* machine where no clone has succeeded yet, having found pyenv absent and
\* gone past apt, attempts the clone instead of skipping it.
C12_RootOnlyByClone ==
    [][ /\ (~fs.rootIsDir /\ fs'.rootIsDir) =>
              /\ pc = "ub_clone"
              /\ last' = Call(295, "git clone pyenv", NoText, "ok")
        /\ (pc = "ub_apt" /\ pc' # "exited" /\ ~fs.rootHasBin) =>
              pc' = "ub_clone" ]_vars

====
